---- MODULE Spec2Model ----
(***************************************************************************)
(* Model of minos/api_gateway/rest/handler.py: the per-request             *)
(* orchestration pipeline of the API gateway (discover -> get_user ->      *)
(* call).  One inbound request is a task whose position is pc[r]; the      *)
(* three external services answer nondeterministically.  Header sets are   *)
(* ordered lists of (key, value) pairs with case-insensitive keys, as      *)
(* multidict.CIMultiDict keeps them.                                       *)
(***************************************************************************)
EXTENDS Integers, Sequences, FiniteSets, TLC

\* ---------------------------------------------------------------- bounds
MaxHeaders == 3
NumReq == 2

Reqs == 1 .. NumReq

\* Python's None (absent identity, absent configuration, no value yet).
None == "<None>"

\* ------------------------------------------------------- header multimap
\* Spelled header keys a client may send.
HeaderKeys == {"User", "user", "Authorization", "X-Foo"}

\* Case-insensitive identity of a header key (CIMultiDict compares keys by it).
Identity(k) ==
  CASE k = "User" -> "user"
    [] k = "user" -> "user"
    [] k = "Authorization" -> "authorization"
    [] k = "authorization" -> "authorization"
    [] k = "X-Foo" -> "x-foo"
    [] OTHER -> k

\* (key, value) pairs a client may put in the inbound header multimap.
HeaderPairs ==
  { <<"User", "mallory">>, <<"user", "eve">>,
    <<"Authorization", "Bearer xyz">>, <<"Authorization", "Basic xyz">>,
    <<"Authorization", "Bearer">>, <<"Authorization", "Bearer x y">>,
    <<"X-Foo", "bar">> }

HeaderLists == UNION { [1 .. n -> HeaderPairs] : n \in 0 .. MaxHeaders }

\* Indices of the entries of h whose key has the identity of key.
Occurrences(h, key) == { i \in 1 .. Len(h) : Identity(h[i][1]) = Identity(key) }

\* "key in headers"
Contains(h, key) == Occurrences(h, key) # {}

Min(S) == CHOOSE x \in S : \A y \in S : x <= y

\* headers[key]: the value of the first entry with that key.
GetItem(h, key) == h[Min(Occurrences(h, key))][2]

\* the list h without the entries whose index is in drop
RECURSIVE Without(_, _, _)
Without(h, drop, i) ==
  IF i > Len(h) THEN << >>
  ELSE IF i \in drop THEN Without(h, drop, i + 1)
  ELSE << h[i] >> \o Without(h, drop, i + 1)

\* Variant of SetItem that adds the entry and keeps the ones already there.
SetItemAdd(h, key, value) == Append(h, <<key, value>>)

\* headers[key] = value: the first entry with that key is replaced in
\* place, every later one is removed; appended when there is none.
SetItem(h, key, value) ==
  IF ~Contains(h, key) THEN Append(h, <<key, value>>)
  ELSE LET first == Min(Occurrences(h, key))
           kept == [h EXCEPT ![first] = <<key, value>>]
       IN Without(kept, Occurrences(h, key) \ {first}, 1)

\* headers.pop(key, None): removes the first entry with that key only.
Pop(h, key) ==
  IF ~Contains(h, key) THEN h
  ELSE Without(h, {Min(Occurrences(h, key))}, 1)

\* dict(headers): one entry per distinct spelled key, in order of first
\* appearance, each with headers[key] (the first value of its identity).
RECURSIVE ToDict(_, _)
ToDict(h, i) ==
  IF i > Len(h) THEN << >>
  ELSE IF \E j \in 1 .. (i - 1) : h[j][1] = h[i][1] THEN ToDict(h, i + 1)
  ELSE << <<h[i][1], GetItem(h, h[i][1])>> >> \o ToDict(h, i + 1)

\* ------------------------------------------------------- token extractor
\* "Bearer" in value
HasBearer(v) == v \in {"Bearer xyz", "Bearer", "Bearer x y"}

\* value.split()
Split(v) ==
  CASE v = "Bearer xyz" -> <<"Bearer", "xyz">>
    [] v = "Basic xyz" -> <<"Basic", "xyz">>
    [] v = "Bearer" -> <<"Bearer">>
    [] v = "Bearer x y" -> <<"Bearer", "x", "y">>
    [] OTHER -> <<v>>

\* get_token: the token, or "NoTokenException" when it raises.
NoToken == "NoTokenException"

\* Variant of get_token that takes the second part of any value of two or
\* more parts.
get_tokenTwoOrMore(h) ==
  IF Contains(h, "Authorization") /\ HasBearer(GetItem(h, "Authorization"))
  THEN LET parts == Split(GetItem(h, "Authorization"))
       IN IF Len(parts) >= 2 THEN parts[2] ELSE NoToken
  ELSE NoToken

\* Variant of get_token that does not look for the "Bearer" marker.
get_tokenAnyScheme(h) ==
  IF Contains(h, "Authorization")
  THEN LET parts == Split(GetItem(h, "Authorization"))
       IN IF Len(parts) = 2 THEN parts[2] ELSE NoToken
  ELSE NoToken

get_token(h) ==
  IF Contains(h, "Authorization") /\ HasBearer(GetItem(h, "Authorization"))
  THEN LET parts == Split(GetItem(h, "Authorization"))
       IN IF Len(parts) = 2 THEN parts[2] ELSE NoToken
  ELSE NoToken

\* ------------------------------------------------------ external services
\* response.ok of aiohttp's ClientResponse: the status is below 400.
Ok(status) == status < 400

\* int(x) on a JSON number or a numeric string; "ValueError" when it raises.
ValueError == -1

IntOf(v) ==
  CASE v = "9000" -> 9000
    [] v = "8080" -> 8080
    [] OTHER -> ValueError

\* Answers of the discovery service: a status and a body.  json tells
\* whether response.json() can decode the body, data is the decoded
\* object; port is written as it is on the wire ("9000" stands for both
\* the number 9000 and the string "9000", which int() maps to one value).
DiscStatuses == {200, 304, 404, 500}

DiscBodies ==
  { [json |-> TRUE, data |-> [address |-> "10.0.0.5", port |-> "9000"]],
    [json |-> TRUE, data |-> [address |-> "10.0.0.6", port |-> "8080"]],
    [json |-> TRUE, data |-> [address |-> "10.0.0.5", port |-> "http"]],
    [json |-> TRUE, data |-> [address |-> "10.0.0.5"]],
    [json |-> TRUE, data |-> [port |-> "9000"]],
    [json |-> FALSE, data |-> [text |-> "<html>"]] }

\* Answers of the authentication service.
AuthStatuses == {200, 304, 401, 500}

AuthBodies ==
  { [json |-> TRUE, data |-> [sub |-> "user-42"]],
    [json |-> TRUE, data |-> [sub |-> "user-7"]],
    [json |-> TRUE, data |-> [name |-> "user-42"]],
    [json |-> FALSE, data |-> [text |-> "<html>"]] }

\* Answers of a backend.
BackendReplies ==
  { [status |-> 201, reason |-> "Created", headers |-> << <<"X-Foo", "bar">> >>, body |-> "ok"],
    [status |-> 200, reason |-> "OK", headers |-> << >>, body |-> ""],
    [status |-> 500, reason |-> "Internal Server Error",
     headers |-> << <<"Set-Cookie", "a">>, <<"Set-Cookie", "b">> >>, body |-> "boom"] }

\* ------------------------------------------------------- inbound requests
\* Method, URL and body of the inbound requests (headers are drawn apart).
GatewayUrl(path, query) ==
  [scheme |-> "https", host |-> "gateway", port |-> 443, path |-> path, query |-> query]

InboundShapes ==
  { [method |-> "GET", url |-> GatewayUrl("/orders", ""), body |-> ""],
    [method |-> "POST", url |-> GatewayUrl("/orders", "page=2"), body |-> "ok"] }

Request(shape, h) ==
  [method |-> shape.method, url |-> shape.url, body |-> shape.body, headers |-> h]

\* request.app["config"].rest.auth: absent, disabled or enabled.
AuthConfigs ==
  { [present |-> FALSE, enabled |-> FALSE],
    [present |-> TRUE, enabled |-> FALSE],
    [present |-> TRUE, enabled |-> TRUE] }

\* ------------------------------------------------------------------ state
VARIABLES
  auth,            \* request.app["config"].rest.auth (read-only)
  request,         \* request[r]: the inbound request of task r
  pc,              \* pc[r]: where task r is in orchestrate
  discovery_data,  \* orchestrate's local discovery_data
  user,            \* orchestrate's local user
  authSent,        \* the request task r sent to the authentication service
  backendSent,     \* the request task r sent to the backend
  response,        \* what orchestrate returned or raised
  trace,           \* trace[r]: the outbound calls and returns of task r, in order
  answers,         \* answers[r]: how each service ended the call task r made to it
  sessions         \* the ClientSessions that are open

vars == << auth, request, pc, discovery_data, user, authSent, backendSent,
           response, trace, answers, sessions >>

NotSent == [sent |-> FALSE]
NoData == [known |-> FALSE]
NoResponse == [kind |-> "none"]

\* A web.HTTPException raised by the handler: the gateway's error response.
HttpError(status, text) == [kind |-> "error", status |-> status, text |-> text]

\* Any other exception that leaves orchestrate.
Unhandled(exc) == [kind |-> "unhandled", exc |-> exc]

\* An outbound call either fails to connect (ClientConnectorError) or is
\* answered.
Pending == [state |-> "pending"]
ConnectorError == [state |-> "refused"]
Answer(reply) == [state |-> "answered", reply |-> reply]

DiscOutcomes ==
  {ConnectorError} \cup { Answer([status |-> s, body |-> b]) : s \in DiscStatuses, b \in DiscBodies }

AuthOutcomes ==
  {ConnectorError} \cup { Answer([status |-> s, body |-> b]) : s \in AuthStatuses, b \in AuthBodies }

BackendOutcomes == {ConnectorError} \cup { Answer(b) : b \in BackendReplies }

IdleRequest == Request(CHOOSE s \in InboundShapes : s.method = "GET", << >>)

\* The tasks in active have received a request whose headers are in lists.
InitTasks(active, lists) ==
  /\ auth \in AuthConfigs
  /\ \E f \in [active -> { Request(s, h) : s \in InboundShapes, h \in lists }] :
       request = [r \in Reqs |-> IF r \in active THEN f[r] ELSE IdleRequest]
  /\ pc = [r \in Reqs |-> IF r \in active THEN "start" ELSE "off"]
  /\ discovery_data = [r \in Reqs |-> NoData]
  /\ user = [r \in Reqs |-> None]
  /\ authSent = [r \in Reqs |-> NotSent]
  /\ backendSent = [r \in Reqs |-> NotSent]
  /\ response = [r \in Reqs |-> NoResponse]
  /\ trace = [r \in Reqs |-> << >>]
  /\ answers = [r \in Reqs |-> [discovery |-> Pending, authentication |-> Pending,
                                 backend |-> Pending]]
  /\ sessions = {}

\* One request in flight, with every header list up to MaxHeaders.
Init == InitTasks({1}, HeaderLists)

Returned(v) == [raised |-> FALSE, value |-> v]
Raised(e) == [raised |-> TRUE, exc |-> e]

\* ---------------------------------------------------------------- discover
\* The rest of discover, after the status checks: the body is decoded and
\* the port coerced.
discoverBody(o) ==
  IF ~o.reply.body.json THEN Raised(Unhandled("ContentTypeError"))
  ELSE LET data == o.reply.body.data
       IN IF "port" \notin DOMAIN data THEN Raised(Unhandled("KeyError"))
          ELSE IF IntOf(data.port) = ValueError THEN Raised(Unhandled("ValueError"))
          ELSE Returned([data EXCEPT !.port = IntOf(data.port)])

\* Variant of discover without the 404 case: every failure status is a
\* bad gateway.
discoverNo404(verb, endpoint, o) ==
  IF o.state = "refused"
  THEN Raised(HttpError(504, "The Discovery Service is not available."))
  ELSE IF ~Ok(o.reply.status)
  THEN Raised(HttpError(502, "The Discovery Service response is wrong."))
  ELSE discoverBody(o)

\* Variant of discover that does not catch ClientConnectorError.
discoverUncaught(verb, endpoint, o) ==
  IF o.state = "refused"
  THEN Raised(Unhandled("ClientConnectorError"))
  ELSE IF ~Ok(o.reply.status)
  THEN IF o.reply.status = 404
       THEN Raised(HttpError(404, "The path is not available for the method."))
       ELSE Raised(HttpError(502, "The Discovery Service response is wrong."))
  ELSE discoverBody(o)

\* Variant of discover that rejects a 404 only and reads the body of any
\* other answer.
discoverOnly404(verb, endpoint, o) ==
  IF o.state = "refused"
  THEN Raised(HttpError(504, "The Discovery Service is not available."))
  ELSE IF o.reply.status = 404
  THEN Raised(HttpError(404, "The path is not available for the method."))
  ELSE discoverBody(o)

\* What discover returns or raises once the discovery call has ended in o.
discover(verb, endpoint, o) ==
  IF o.state = "refused"
  THEN Raised(HttpError(504, "The Discovery Service is not available."))
  ELSE IF ~Ok(o.reply.status)
  THEN IF o.reply.status = 404
       THEN Raised(HttpError(404, "The path is not available for the method."))
       ELSE Raised(HttpError(502, "The Discovery Service response is wrong."))
  ELSE discoverBody(o)

\* ------------------------------------------------------------ authenticate
\* Variant of authenticate that swallows a rejected credential: the caller
\* goes on as anonymous.
authenticateSwallow(o) ==
  IF o.state = "refused"
  THEN Raised(HttpError(504, "The Authentication Service is not available."))
  ELSE IF ~Ok(o.reply.status) THEN Returned(None)
  ELSE IF ~o.reply.body.json THEN Raised(Unhandled("ContentTypeError"))
  ELSE IF "sub" \notin DOMAIN o.reply.body.data THEN Raised(Unhandled("KeyError"))
  ELSE Returned(o.reply.body.data.sub)

\* Variant of authenticate that answers an unreachable authentication
\* service as it answers a rejected credential.
authenticateUnreachable401(o) ==
  IF o.state = "refused" \/ ~Ok(o.reply.status)
  THEN Raised(HttpError(401, "The given request does not have authorization to be forwarded."))
  ELSE IF ~o.reply.body.json THEN Raised(Unhandled("ContentTypeError"))
  ELSE IF "sub" \notin DOMAIN o.reply.body.data THEN Raised(Unhandled("KeyError"))
  ELSE Returned(o.reply.body.data.sub)

\* What authenticate returns or raises once the authentication call has
\* ended in o.
authenticate(o) ==
  IF o.state = "refused"
  THEN Raised(HttpError(504, "The Authentication Service is not available."))
  ELSE IF ~Ok(o.reply.status)
  THEN Raised(HttpError(401, "The given request does not have authorization to be forwarded."))
  ELSE IF ~o.reply.body.json THEN Raised(Unhandled("ContentTypeError"))
  ELSE IF "sub" \notin DOMAIN o.reply.body.data THEN Raised(Unhandled("KeyError"))
  ELSE Returned(o.reply.body.data.sub)

\* -------------------------------------------------------------------- call
\* The headers call sends to the backend.
ForwardHeaders(h, u) ==
  IF u # None THEN SetItem(h, "User", u) ELSE Pop(h, "User")

\* Variant of ForwardUrl that rebuilds the URL from the path and drops the
\* query.
ForwardUrlNoQuery(url, address, port) ==
  [url EXCEPT !.scheme = "http", !.host = address, !.port = port, !.query = ""]

\* original_req.url.with_scheme("http").with_host(address).with_port(port)
ForwardUrl(url, address, port) ==
  [url EXCEPT !.scheme = "http", !.host = address, !.port = port]

\* Variant of _clone_response that leaves the reason phrase to the default
\* of web.Response.
_clone_responseNoReason(reply) ==
  [kind |-> "backend", body |-> reply.body, status |-> reply.status,
   reason |-> "OK", headers |-> reply.headers]

\* _clone_response
_clone_response(reply) ==
  [kind |-> "backend", body |-> reply.body, status |-> reply.status,
   reason |-> reply.reason, headers |-> reply.headers]

\* Variant of call that reports an unreachable backend as a bad gateway.
callBadGateway(o) ==
  IF o.state = "refused"
  THEN Raised(HttpError(502, "The requested endpoint is not available."))
  ELSE Returned(_clone_response(o.reply))

\* What call returns or raises once the backend call has ended in o.
call(o) ==
  IF o.state = "refused"
  THEN Raised(HttpError(503, "The requested endpoint is not available."))
  ELSE Returned(_clone_response(o.reply))

\* ----------------------------------------------------------------- actions
\* The task ends: orchestrate returns or raises res, every session of the
\* task has been left.
Finish(r, res, event) ==
  /\ pc' = [pc EXCEPT ![r] = "done"]
  /\ response' = [response EXCEPT ![r] = res]
  /\ trace' = [trace EXCEPT ![r] = Append(@, event)]

\* Variant of orchestrate that resolves the identity before the discovery.
OrchestrateUserFirst(r) ==
  /\ pc[r] = "start"
  /\ pc' = [pc EXCEPT ![r] = "get_user"]
  /\ UNCHANGED << auth, request, discovery_data, user, authSent, backendSent, response,
                  trace, answers, sessions >>

\* orchestrate up to its first suspension: the discovery query is issued.
Orchestrate(r) ==
  /\ pc[r] = "start"
  /\ pc' = [pc EXCEPT ![r] = "discover"]
  /\ trace' = [trace EXCEPT ![r] = Append(@, "discovery_call")]
  /\ sessions' = sessions \cup {<<r, "discovery">>}
  /\ UNCHANGED << auth, request, discovery_data, user, authSent, backendSent, response,
                  answers >>

\* Variant of DiscoverReturn that closes the session on the success path
\* only.
DiscoverReturnLeak(r) ==
  /\ pc[r] = "discover"
  /\ \E o \in DiscOutcomes :
       /\ answers' = [answers EXCEPT ![r].discovery = o]
       /\ LET res == discover(request[r].method, request[r].url.path, o)
          IN IF res.raised
             THEN /\ Finish(r, res.exc, "discovery_raise")
                  /\ UNCHANGED << discovery_data, sessions >>
             ELSE /\ discovery_data' = [discovery_data EXCEPT ![r] = res.value]
                  /\ pc' = [pc EXCEPT ![r] = "get_user"]
                  /\ trace' = [trace EXCEPT ![r] = Append(@, "discovery_return")]
                  /\ sessions' = sessions \ {<<r, "discovery">>}
                  /\ UNCHANGED response
  /\ UNCHANGED << auth, request, user, authSent, backendSent >>

\* The discovery call ends; discover returns to orchestrate or raises.
DiscoverReturn(r) ==
  /\ pc[r] = "discover"
  /\ \E o \in DiscOutcomes :
       /\ answers' = [answers EXCEPT ![r].discovery = o]
       /\ LET res == discover(request[r].method, request[r].url.path, o)
          IN IF res.raised
             THEN /\ Finish(r, res.exc, "discovery_raise")
                  /\ UNCHANGED discovery_data
             ELSE /\ discovery_data' = [discovery_data EXCEPT ![r] = res.value]
                  /\ pc' = [pc EXCEPT ![r] = "get_user"]
                  /\ trace' = [trace EXCEPT ![r] = Append(@, "discovery_return")]
                  /\ UNCHANGED response
  /\ sessions' = sessions \ {<<r, "discovery">>}
  /\ UNCHANGED << auth, request, user, authSent, backendSent >>

\* get_user up to its suspension: it returns None, or the authentication
\* request is issued with dict(request.headers.copy()).
GetUser(r) ==
  /\ pc[r] = "get_user"
  /\ IF ~auth.present \/ ~auth.enabled \/ get_token(request[r].headers) = NoToken
     THEN /\ user' = [user EXCEPT ![r] = None]
          /\ pc' = [pc EXCEPT ![r] = "call"]
          /\ trace' = [trace EXCEPT ![r] = Append(@, "auth_skip")]
          /\ UNCHANGED << authSent, sessions >>
     ELSE /\ authSent' = [authSent EXCEPT ![r] =
                 [sent |-> TRUE, headers |-> ToDict(request[r].headers, 1)]]
          /\ pc' = [pc EXCEPT ![r] = "authenticate"]
          /\ trace' = [trace EXCEPT ![r] = Append(@, "auth_call")]
          /\ sessions' = sessions \cup {<<r, "authentication">>}
          /\ UNCHANGED user
  /\ UNCHANGED << auth, request, discovery_data, backendSent, response, answers >>

\* Variant of AuthenticateReturn that keeps the resolved identity in one
\* place shared by all the tasks.
AuthenticateReturnShared(r) ==
  /\ pc[r] = "authenticate"
  /\ \E o \in AuthOutcomes :
       /\ answers' = [answers EXCEPT ![r].authentication = o]
       /\ LET res == authenticate(o)
          IN IF res.raised
             THEN /\ Finish(r, res.exc, "auth_raise")
                  /\ UNCHANGED user
             ELSE /\ user' = [q \in Reqs |-> res.value]
                  /\ pc' = [pc EXCEPT ![r] = "call"]
                  /\ trace' = [trace EXCEPT ![r] = Append(@, "auth_return")]
                  /\ UNCHANGED response
  /\ sessions' = sessions \ {<<r, "authentication">>}
  /\ UNCHANGED << auth, request, discovery_data, authSent, backendSent >>

\* The authentication call ends; authenticate returns the identity or raises.
AuthenticateReturn(r) ==
  /\ pc[r] = "authenticate"
  /\ \E o \in AuthOutcomes :
       /\ answers' = [answers EXCEPT ![r].authentication = o]
       /\ LET res == authenticate(o)
          IN IF res.raised
             THEN /\ Finish(r, res.exc, "auth_raise")
                  /\ UNCHANGED user
             ELSE /\ user' = [user EXCEPT ![r] = res.value]
                  /\ pc' = [pc EXCEPT ![r] = "call"]
                  /\ trace' = [trace EXCEPT ![r] = Append(@, "auth_return")]
                  /\ UNCHANGED response
  /\ sessions' = sessions \ {<<r, "authentication">>}
  /\ UNCHANGED << auth, request, discovery_data, authSent, backendSent >>

\* call(**discovery_data, original_req=request, user=user) up to its
\* suspension: the request is rewritten and sent to the backend.
Call(r) ==
  /\ pc[r] = "call"
  /\ IF "address" \notin DOMAIN discovery_data[r]
     THEN /\ Finish(r, Unhandled("TypeError"), "call_raise")
          /\ UNCHANGED << backendSent, sessions >>
     ELSE /\ backendSent' = [backendSent EXCEPT ![r] =
                 [sent |-> TRUE,
                  headers |-> ForwardHeaders(request[r].headers, user[r]),
                  method |-> request[r].method,
                  url |-> ForwardUrl(request[r].url, discovery_data[r].address,
                                     discovery_data[r].port),
                  data |-> request[r].body]]
          /\ pc' = [pc EXCEPT ![r] = "forward"]
          /\ trace' = [trace EXCEPT ![r] = Append(@, "backend_call")]
          /\ sessions' = sessions \cup {<<r, "backend">>}
          /\ UNCHANGED response
  /\ UNCHANGED << auth, request, discovery_data, user, authSent, answers >>

\* Variant of CallReturn that tries the backend again when the connection
\* fails.
CallReturnRetry(r) ==
  /\ pc[r] = "forward"
  /\ \E o \in BackendOutcomes :
       /\ answers' = [answers EXCEPT ![r].backend = o]
       /\ IF o.state = "refused"
          THEN /\ pc' = [pc EXCEPT ![r] = "call"]
               /\ trace' = [trace EXCEPT ![r] = Append(@, "backend_raise")]
               /\ UNCHANGED response
          ELSE Finish(r, _clone_response(o.reply), "backend_return")
  /\ sessions' = sessions \ {<<r, "backend">>}
  /\ UNCHANGED << auth, request, discovery_data, user, authSent, backendSent >>

\* The backend call ends; call returns the cloned response or raises.
CallReturn(r) ==
  /\ pc[r] = "forward"
  /\ \E o \in BackendOutcomes :
       /\ answers' = [answers EXCEPT ![r].backend = o]
       /\ LET res == call(o)
          IN IF res.raised
             THEN Finish(r, res.exc, "backend_raise")
             ELSE Finish(r, res.value, "backend_return")
  /\ sessions' = sessions \ {<<r, "backend">>}
  /\ UNCHANGED << auth, request, discovery_data, user, authSent, backendSent >>

\* One step of the task of request r.
Task(r) ==
  \/ Orchestrate(r)
  \/ DiscoverReturn(r)
  \/ GetUser(r)
  \/ AuthenticateReturn(r)
  \/ Call(r)
  \/ CallReturn(r)

Next == \E r \in Reqs : Task(r)

Spec == Init /\ [][Next]_vars

\* Two requests handled concurrently: their tasks interleave at the
\* suspension points.
ConcurrentTasks == {1, 2}

ConcurrentLists ==
  { << <<"X-Foo", "bar">> >>,
    << <<"User", "mallory">>, <<"Authorization", "Bearer xyz">> >> }

InitConcurrent == InitTasks(ConcurrentTasks, ConcurrentLists)

SpecConcurrent == InitConcurrent /\ [][Next]_vars

\* Every outbound call ends (it is answered or fails) and the event loop
\* resumes every task that can run.
FairSpec == Init /\ [][Next]_vars /\ \A r \in Reqs : WF_vars(Task(r))

TypeOK ==
  /\ auth \in AuthConfigs
  /\ \A r \in Reqs :
       /\ pc[r] \in {"off", "start", "discover", "get_user", "authenticate", "call", "forward", "done"}
       /\ user[r] \in {None, "user-42", "user-7"}

\* ------------------------------------------------------------- properties
\* The task made the outbound step ev.
Did(r, ev) == \E i \in DOMAIN trace[r] : trace[r][i] = ev

\* How many times the task made the outbound step ev.
Times(r, ev) == Cardinality({ i \in DOMAIN trace[r] : trace[r][i] = ev })

\* orchestrate ended with the gateway's error response of that status.
Rejected(r, status) ==
  /\ pc[r] = "done"
  /\ response[r].kind = "error"
  /\ response[r].status = status

AuthEnabled == auth.present /\ auth.enabled

DiscAnswered(r) == answers[r].discovery.state = "answered"
AuthAnswered(r) == answers[r].authentication.state = "answered"

UserEntries(h) == Occurrences(h, "User")

\* C1: in call, when the resolved identity is absent (user is None), the
\* headers sent to the backend contain no User header at all, whatever the
\* inbound headers are (several User entries, other spellings of the key).
C1_AnonymousSendsNoUser ==
  \A r \in Reqs :
    (backendSent[r].sent /\ user[r] = None) => UserEntries(backendSent[r].headers) = {}

\* C2: with authentication enabled, a well-formed bearer credential and an
\* authentication answer of success status whose body has sub, the request
\* sent to the backend has exactly one User header and its value is that
\* sub, whatever User headers the client supplied.
C2_OneUserHeaderWithSub ==
  \A r \in Reqs :
    ( /\ AuthEnabled
      /\ get_token(request[r].headers) # NoToken
      /\ AuthAnswered(r)
      /\ Ok(answers[r].authentication.reply.status)
      /\ answers[r].authentication.reply.body.json
      /\ "sub" \in DOMAIN answers[r].authentication.reply.body.data
      /\ backendSent[r].sent )
    => /\ Cardinality(UserEntries(backendSent[r].headers)) = 1
       /\ GetItem(backendSent[r].headers, "User")
            = answers[r].authentication.reply.body.data.sub

C2_Witness ==
  \E r \in Reqs :
    /\ AuthAnswered(r)
    /\ backendSent[r].sent
    /\ user[r] = "user-42"
    /\ Cardinality(UserEntries(request[r].headers)) >= 2
    /\ \E i \in UserEntries(request[r].headers) : request[r].headers[i][2] # user[r]

\* C3: within one request the discovery call has returned a target before
\* the authentication call is issued, and the authentication step (call or
\* skip) has ended before the backend call is issued; neither service is
\* contacted before discovery has succeeded.
C3_DiscoveryThenAuthThenBackend ==
  \A r \in Reqs :
    /\ \A i \in DOMAIN trace[r] :
         /\ trace[r][i] = "auth_call"
              => \E j \in 1 .. (i - 1) : trace[r][j] = "discovery_return"
         /\ trace[r][i] = "backend_call"
              => \E j \in 1 .. (i - 1) : \E k \in (j + 1) .. (i - 1) :
                   /\ trace[r][j] = "discovery_return"
                   /\ trace[r][k] \in {"auth_skip", "auth_return"}
    /\ (authSent[r].sent \/ backendSent[r].sent)
         => /\ DiscAnswered(r)
            /\ Ok(answers[r].discovery.reply.status)
            /\ discovery_data[r] # NoData
    /\ <<r, "authentication">> \in sessions => <<r, "discovery">> \notin sessions
    /\ <<r, "backend">> \in sessions
         => /\ <<r, "discovery">> \notin sessions
            /\ <<r, "authentication">> \notin sessions

C3_Witness ==
  \E r \in Reqs :
    /\ pc[r] = "forward"
    /\ trace[r] = <<"discovery_call", "discovery_return", "auth_call", "auth_return",
                    "backend_call">>

\* C4: when the discovery service answers 404, orchestrate ends in a
\* not-found (404) response and neither the backend nor the authentication
\* service is contacted for that request.
C4_Discovery404IsNotFound ==
  \A r \in Reqs :
    (DiscAnswered(r) /\ answers[r].discovery.reply.status = 404)
    => /\ Rejected(r, 404)
       /\ ~Did(r, "backend_call") /\ ~backendSent[r].sent
       /\ ~Did(r, "auth_call") /\ ~authSent[r].sent

C4_Witness ==
  \E r \in Reqs :
    /\ DiscAnswered(r) /\ answers[r].discovery.reply.status = 404
    /\ response[r].kind = "error"
    /\ AuthEnabled /\ get_token(request[r].headers) # NoToken

\* C5: when the connection to the discovery service fails (refused,
\* unreachable), orchestrate ends in a gateway-timeout (504) response and no
\* backend is contacted for that request.
C5_DiscoveryUnreachableIsGatewayTimeout ==
  \A r \in Reqs :
    answers[r].discovery.state = "refused"
    => /\ Rejected(r, 504)
       /\ ~Did(r, "backend_call") /\ ~backendSent[r].sent

C5_Witness ==
  \E r \in Reqs :
    /\ answers[r].discovery.state = "refused"
    /\ pc[r] = "done"
    /\ trace[r] = <<"discovery_call", "discovery_raise">>

\* C6: when the discovery service answers with a failure status (one that
\* response.ok rejects) other than 404, orchestrate ends in a bad-gateway
\* (502) response and the request never reaches the backend.
C6_DiscoveryFailureIsBadGateway ==
  \A r \in Reqs :
    ( /\ DiscAnswered(r)
      /\ ~Ok(answers[r].discovery.reply.status)
      /\ answers[r].discovery.reply.status # 404 )
    => /\ Rejected(r, 502)
       /\ ~Did(r, "backend_call") /\ ~backendSent[r].sent

C6_Witness ==
  \E r \in Reqs :
    /\ DiscAnswered(r)
    /\ answers[r].discovery.reply.status = 500
    /\ answers[r].discovery.reply.body.json
    /\ "address" \in DOMAIN answers[r].discovery.reply.body.data
    /\ pc[r] = "done"

\* The inbound headers lack a well-formed bearer credential: no
\* Authorization header, or its value has no "Bearer", or it does not split
\* into exactly two parts.
LacksBearer(h) ==
  \/ ~Contains(h, "Authorization")
  \/ ~HasBearer(GetItem(h, "Authorization"))
  \/ Len(Split(GetItem(h, "Authorization"))) # 2

\* C7: with authentication enabled, a request without a well-formed bearer
\* credential gets an absent identity from get_user, which neither raises
\* nor contacts the authentication endpoint, and the request is forwarded to
\* the discovered backend as anonymous instead of being rejected.
C7_NoCredentialIsAnonymous ==
  \A r \in Reqs :
    ( /\ AuthEnabled
      /\ LacksBearer(request[r].headers)
      /\ Did(r, "discovery_return") )
    => /\ ~Did(r, "auth_call") /\ ~authSent[r].sent
       /\ ~Did(r, "auth_raise")
       /\ answers[r].authentication = Pending
       /\ user[r] = None
       /\ pc[r] \in {"get_user", "call", "forward", "done"}
       /\ pc[r] # "get_user" => Did(r, "auth_skip")
       /\ (pc[r] \in {"forward", "done"} /\ "address" \in DOMAIN discovery_data[r])
            => /\ backendSent[r].sent
               /\ Did(r, "backend_call")
               /\ backendSent[r].headers = ForwardHeaders(request[r].headers, None)
       /\ (pc[r] = "done" /\ "address" \in DOMAIN discovery_data[r])
            => response[r].kind = "backend" \/ Rejected(r, 503)

C7_Witness ==
  \E r \in Reqs :
    /\ AuthEnabled
    /\ Contains(request[r].headers, "Authorization")
    /\ LacksBearer(request[r].headers)
    /\ backendSent[r].sent
    /\ response[r].kind = "backend"

\* C8: with authentication enabled and a well-formed bearer credential, an
\* authentication answer of failure status ends orchestrate in an
\* unauthorized (401) response and the backend is never contacted.
C8_RejectedCredentialIsUnauthorized ==
  \A r \in Reqs :
    (AuthAnswered(r) /\ ~Ok(answers[r].authentication.reply.status))
    => /\ Rejected(r, 401)
       /\ ~Did(r, "backend_call") /\ ~backendSent[r].sent

C8_Witness ==
  \E r \in Reqs :
    /\ AuthEnabled
    /\ get_token(request[r].headers) = "xyz"
    /\ AuthAnswered(r)
    /\ answers[r].authentication.reply.status = 401
    /\ pc[r] = "done"

\* C9: with authentication enabled and a well-formed bearer credential, a
\* failed connection to the authentication service ends orchestrate in a
\* gateway-timeout (504) response and the backend is never contacted.
C9_AuthUnreachableIsGatewayTimeout ==
  \A r \in Reqs :
    answers[r].authentication.state = "refused"
    => /\ Rejected(r, 504)
       /\ ~Did(r, "backend_call") /\ ~backendSent[r].sent

C9_Witness ==
  \E r \in Reqs :
    /\ AuthEnabled
    /\ get_token(request[r].headers) = "xyz"
    /\ answers[r].authentication.state = "refused"
    /\ trace[r] = <<"discovery_call", "discovery_return", "auth_call", "auth_raise">>

\* C10: when discovery and identity resolution have succeeded and the
\* connection to the resolved backend fails, orchestrate ends in a
\* service-unavailable (503) response, and that failed forward is the only
\* attempt made against the discovery target.
C10_BackendUnreachableIsServiceUnavailable ==
  \A r \in Reqs :
    answers[r].backend.state = "refused"
    => /\ Rejected(r, 503)
       /\ Times(r, "backend_call") = 1
       /\ Did(r, "discovery_return")
       /\ Did(r, "auth_skip") \/ Did(r, "auth_return")

C10_Witness ==
  \E r \in Reqs :
    /\ answers[r].backend.state = "refused"
    /\ user[r] # None
    /\ trace[r][Len(trace[r])] = "backend_raise"

\* orchestrate ended with a response that came from the backend.
Forwarded(r) == pc[r] = "done" /\ response[r].kind = "backend"

\* orchestrate ended with one of the gateway's mapped error responses.
MappedError(r) ==
  /\ pc[r] = "done"
  /\ response[r].kind = "error"
  /\ response[r].status \in {404, 502, 504, 401, 503}

\* C11: for every combination of outcomes of the discovery, authentication
\* and backend services (success answers whose body lacks address, port or
\* sub, or whose port is no integer, included), orchestrate ends with a
\* backend-originated response or with one of the mapped gateway error
\* responses, and in no other way.
C11_EveryOutcomeIsMapped ==
  \A r \in Reqs : pc[r] = "done" => (Forwarded(r) \/ MappedError(r))

\* C12: when the authentication configuration is absent or disabled,
\* get_user returns an absent identity without contacting the authentication
\* service, whatever Authorization header the request carries, and the
\* request is forwarded with no User header.
C12_AuthDisabledIsSkipped ==
  \A r \in Reqs :
    (~AuthEnabled /\ pc[r] \in {"call", "forward", "done"} /\ Did(r, "discovery_return"))
    => /\ user[r] = None
       /\ Did(r, "auth_skip")
       /\ ~Did(r, "auth_call") /\ ~authSent[r].sent
       /\ answers[r].authentication = Pending
       /\ backendSent[r].sent => UserEntries(backendSent[r].headers) = {}

BackendAnswered(r) == answers[r].backend.state = "answered"

\* C13: whenever the backend returns a response, the response that
\* call/_clone_response produces has exactly the backend's status code,
\* reason phrase, header set and body, error statuses included.
C13_BackendResponseIsCloned ==
  \A r \in Reqs :
    BackendAnswered(r)
    => /\ Forwarded(r)
       /\ response[r].status = answers[r].backend.reply.status
       /\ response[r].reason = answers[r].backend.reply.reason
       /\ response[r].headers = answers[r].backend.reply.headers
       /\ response[r].body = answers[r].backend.reply.body

C13_Witness ==
  \E r \in Reqs :
    /\ BackendAnswered(r)
    /\ response[r].kind = "backend"
    /\ response[r].status = 201
    /\ response[r].reason = "Created"
    /\ response[r].headers = << <<"X-Foo", "bar">> >>
    /\ response[r].body = "ok"

\* C14: no step is retried: while one request is handled the discovery
\* service, the authentication service and the backend are each contacted
\* at most once, on every path, and a discovery target is used for at most
\* one forward attempt.
C14_NoRetry ==
  \A r \in Reqs :
    /\ Times(r, "discovery_call") <= 1
    /\ Times(r, "auth_call") <= 1
    /\ Times(r, "backend_call") <= 1
    /\ Times(r, "discovery_return") <= 1
    /\ pc[r] = "done" => Times(r, "discovery_call") = 1

C14_Witness ==
  \E r \in Reqs :
    /\ pc[r] = "done"
    /\ answers[r].backend.state = "refused"
    /\ Times(r, "discovery_call") = 1
    /\ Times(r, "auth_call") = 1
    /\ Times(r, "backend_call") = 1

\* C15: the request sent to the backend has the method and the body of the
\* inbound request, and its URL is the inbound URL with scheme http, the
\* discovered address as host and the discovered port, as an integer, as
\* port; path and query are kept.
C15_ForwardKeepsMethodBodyPathQuery ==
  \A r \in Reqs :
    backendSent[r].sent
    => /\ backendSent[r].method = request[r].method
       /\ backendSent[r].data = request[r].body
       /\ backendSent[r].url.scheme = "http"
       /\ backendSent[r].url.host = answers[r].discovery.reply.body.data.address
       /\ backendSent[r].url.port \in 1 .. 65535
       /\ backendSent[r].url.port = IntOf(answers[r].discovery.reply.body.data.port)
       /\ backendSent[r].url.path = request[r].url.path
       /\ backendSent[r].url.query = request[r].url.query

C15_Witness ==
  \E r \in Reqs :
    /\ backendSent[r].sent
    /\ request[r].method = "POST"
    /\ request[r].url.query = "page=2"
    /\ request[r].url.scheme = "https"
    /\ backendSent[r].url.host = "10.0.0.6"
    /\ backendSent[r].url.port = 8080

\* C16: if every outbound call ends, every orchestration reaches one of the
\* terminal states Forwarded (a backend response is returned) or Rejected (a
\* mapped error is returned), and makes no outbound call afterwards.
C16_EndsForwardedOrRejected ==
  /\ \A r \in Reqs : (pc[r] = "start") ~> (Forwarded(r) \/ MappedError(r))
  /\ [][\A r \in Reqs : pc[r] = "done" => (pc'[r] = "done" /\ trace'[r] = trace[r])]_vars

\* Termination alone: every orchestration ends, in whatever outcome, and
\* makes no outbound call afterwards.
C16_Terminates ==
  /\ \A r \in Reqs : (pc[r] = "start") ~> (pc[r] = "done")
  /\ [][\A r \in Reqs : pc[r] = "done" => (pc'[r] = "done" /\ trace'[r] = trace[r])]_vars

\* What the own services' answers make of request r, by the functions of
\* the handler alone.
OwnDiscovery(r) == discover(request[r].method, request[r].url.path, answers[r].discovery)

OwnUser(r) ==
  IF AuthAnswered(r) /\ ~authenticate(answers[r].authentication).raised
  THEN authenticate(answers[r].authentication).value
  ELSE None

OwnOutcome(r) ==
  IF OwnDiscovery(r).raised THEN OwnDiscovery(r).exc
  ELSE IF answers[r].authentication # Pending /\ authenticate(answers[r].authentication).raised
  THEN authenticate(answers[r].authentication).exc
  ELSE IF "address" \notin DOMAIN OwnDiscovery(r).value THEN Unhandled("TypeError")
  ELSE IF call(answers[r].backend).raised THEN call(answers[r].backend).exc
  ELSE call(answers[r].backend).value

\* C17: in any interleaving of concurrent orchestrations at their
\* suspension points, the discovery target, the identity in the User header
\* and the outcome of each request depend only on that request and on the
\* services' answers to it: no failure and no identity of one request shows
\* in another.
C17_RequestsAreIsolated ==
  \A r \in Reqs :
    /\ user[r] = OwnUser(r)
    /\ discovery_data[r] # NoData
         => (~OwnDiscovery(r).raised /\ discovery_data[r] = OwnDiscovery(r).value)
    /\ backendSent[r].sent
         => /\ backendSent[r].headers = ForwardHeaders(request[r].headers, OwnUser(r))
            /\ backendSent[r].url
                 = ForwardUrl(request[r].url, OwnDiscovery(r).value.address,
                              OwnDiscovery(r).value.port)
    /\ pc[r] = "done" => response[r] = OwnOutcome(r)
    /\ pc[r] # "done" => response[r] = NoResponse
    /\ pc[r] \in {"off", "start"}
         => /\ user[r] = None /\ discovery_data[r] = NoData
            /\ ~authSent[r].sent /\ ~backendSent[r].sent /\ trace[r] = << >>

C17_Witness ==
  \E r \in Reqs : \E q \in Reqs \ {r} :
    /\ <<r, "backend">> \in sessions
    /\ user[r] = "user-42"
    /\ GetItem(backendSent[r].headers, "User") = "user-42"
    /\ backendSent[r].url.host = "10.0.0.5"
    /\ <<q, "backend">> \in sessions
    /\ user[q] = "user-7"
    /\ GetItem(backendSent[q].headers, "User") = "user-7"
    /\ backendSent[q].url.host = "10.0.0.6"

\* C18: when authenticate is invoked, the request sent to the
\* authentication service carries the caller's full original header set:
\* every (name, value) pair of the inbound header multimap, repeated names
\* included, is among its headers, and nothing but inbound headers is.
C18_AuthGetsAllInboundHeaders ==
  \A r \in Reqs :
    authSent[r].sent
    => /\ \A i \in DOMAIN request[r].headers :
            \E j \in DOMAIN authSent[r].headers :
              authSent[r].headers[j] = request[r].headers[i]
       /\ \A j \in DOMAIN authSent[r].headers :
            \E i \in DOMAIN request[r].headers :
              authSent[r].headers[j] = request[r].headers[i]

\* C19: get_token returns a token exactly when the inbound headers have an
\* Authorization header whose value contains "Bearer" and splits into
\* exactly two parts, and the token is the second part; in every other case
\* (no header, no "Bearer", one part, three or more parts) it raises
\* NoTokenException.  get_user calls authenticate exactly in the first case.
C19_TokenIffWellFormedBearer ==
  \A r \in Reqs :
    LET h == request[r].headers
    IN /\ ~LacksBearer(h)
            => /\ get_token(h) # NoToken
               /\ get_token(h) = Split(GetItem(h, "Authorization"))[2]
       /\ LacksBearer(h) => get_token(h) = NoToken
       /\ (AuthEnabled /\ pc[r] \in {"authenticate", "call", "forward", "done"}
             /\ Did(r, "discovery_return"))
            => /\ Did(r, "auth_call") <=> ~LacksBearer(h)
               /\ Did(r, "auth_skip") <=> LacksBearer(h)

C19_Witness ==
  \E r \in Reqs :
    /\ AuthEnabled
    /\ request[r].headers = << <<"Authorization", "Bearer x y">>,
                               <<"Authorization", "Bearer xyz">> >>
    /\ Did(r, "auth_skip")
    /\ pc[r] = "call"

\* C20: every outbound session opened for a request (in discover,
\* authenticate and call) is released before the request reaches its
\* terminal state, on the success path and on every error path; a session
\* belongs to the one task that is waiting on it and none stays open once
\* its request has ended.
C20_SessionsAreReleased ==
  /\ \A r \in Reqs :
       /\ <<r, "discovery">> \in sessions <=> pc[r] = "discover"
       /\ <<r, "authentication">> \in sessions <=> pc[r] = "authenticate"
       /\ <<r, "backend">> \in sessions <=> pc[r] = "forward"
       /\ pc[r] = "done" => \A s \in sessions : s[1] # r
  /\ \A s \in sessions :
       s[1] \in Reqs /\ s[2] \in {"discovery", "authentication", "backend"}

C20_Witness ==
  \E r \in Reqs : \E q \in Reqs \ {r} :
    /\ pc[r] = "done"
    /\ Rejected(r, 401)
    /\ Times(r, "discovery_call") = 1 /\ Times(r, "auth_call") = 1
    /\ sessions = {<<q, "backend">>}

====
